---- MODULE Spec2Model ----
(***************************************************************************)
(* ProductTree documentation site: the build-time search index             *)
(* (search-index.json endpoint) and the client-side search box.            *)
(*                                                                         *)
(* Text is modelled as a sequence of one-character strings, so that        *)
(* slice/replace/trim/split act on characters as they do in the source.    *)
(***************************************************************************)
EXTENDS Integers, Sequences, FiniteSets, TLC

(***************************************************************************)
(* Bounds of the model and constants of the program                        *)
(***************************************************************************)
MaxBodyLen == 2        \* short bodies: every text over BodyAlphabet up to this length
MaxDocs == 2           \* multi-document sets hold up to this many documents
MaxQueryLen == 2       \* typed texts: every text over QueryAlphabet up to this length
SiteSize == 12         \* documents of the large served site (more than RenderLimit)
MaxTimers == 2         \* pending timers the event loop may hold in the model
MaxWordBodyLen == 4    \* bodies of letters, digits and spaces up to this length
MaxSlugLen == 4        \* identifiers over SlugAlphabet up to this length
MaxShareClicks == 5    \* share clicks awaiting, and reset timers pending, at one time
MaxNavDocs == 3        \* documents of a collection whose navigation is rendered
MaxHeadings == 3       \* h1-h4 headings of an article

ExcerptLen == 200      \* content.slice(0, 200)
KeywordLimit == 50     \* ?.slice(0, 50)
RenderLimit == 10      \* results.slice(0, 10)
DebounceMs == 300      \* setTimeout(..., 300)
MinMatchCharLength == 2 \* Fuse option minMatchCharLength
ThresholdPct == 30     \* Fuse option threshold: 0.3
FuseDistance == 100    \* Fuse default option distance

(***************************************************************************)
(* JavaScript values and string primitives                                 *)
(***************************************************************************)
\* undefined / null of an optional field; a tuple, so that it compares with text
Undefined == <<"undefined">>
Null == <<"null">>

Min(a, b) == IF a <= b THEN a ELSE b
SetMin(S) == CHOOSE x \in S : \A y \in S : x <= y
SetMax(S) == CHOOSE x \in S : \A y \in S : x >= y

\* variant: a ?? b, which keeps the empty string
JsNullish(a, b) == IF a = Undefined THEN b ELSE a

\* a || b : b when a is undefined/null or the empty string
JsOr(a, b) == IF a = Undefined \/ a = <<>> THEN b ELSE a

IsSpace(c) == c \in {" ", "\n", "\t"}
\* the backquote character, which a TLA+ string literal cannot hold
Backquote == "BQ"
IsMarkup(c) == c \in {"#", "*", Backquote}
IsKept(c) == ~IsMarkup(c)

\* String.prototype.slice(start, end) for 0 <= start <= end
Slice(s, start, end) == SubSeq(s, start + 1, Min(end, Len(s)))

\* String.prototype.trim()
Trim(s) ==
  LET solid == {i \in 1..Len(s) : ~IsSpace(s[i])}
  IN IF solid = {} THEN <<>> ELSE SubSeq(s, SetMin(solid), SetMax(solid))

\* s.replace(/[#*BQ]/g, '')
StripMarkup(s) == SelectSeq(s, IsKept)

Ellipsis == <<".", ".", ".">>

LowerLetters ==
  <<"a", "b", "c", "d", "e", "f", "g", "h", "i", "j", "k", "l", "m",
    "n", "o", "p", "q", "r", "s", "t", "u", "v", "w", "x", "y", "z">>
UpperLetters ==
  <<"A", "B", "C", "D", "E", "F", "G", "H", "I", "J", "K", "L", "M",
    "N", "O", "P", "Q", "R", "S", "T", "U", "V", "W", "X", "Y", "Z">>
LetterIndex(c, letters) == CHOOSE i \in 1..Len(letters) : letters[i] = c
LowerOf == [c \in {UpperLetters[i] : i \in 1..Len(UpperLetters)} |->
             LowerLetters[LetterIndex(c, UpperLetters)]]
UpperOf == [c \in {LowerLetters[i] : i \in 1..Len(LowerLetters)} |->
             UpperLetters[LetterIndex(c, LowerLetters)]]
ToLowerChar(c) == IF c \in DOMAIN LowerOf THEN LowerOf[c] ELSE c
ToUpperChar(c) == IF c \in DOMAIN UpperOf THEN UpperOf[c] ELSE c
ToLowerCase(s) == [i \in 1..Len(s) |-> ToLowerChar(s[i])]

IsAlpha(c) == c \in (DOMAIN LowerOf) \cup (DOMAIN UpperOf)
\* \w of a regular expression: letters, digits, underscore
IsWordChar(c) == IsAlpha(c) \/ c \in {"0", "1", "_"}

\* String.prototype.split(sep) for a one-character separator
RECURSIVE Split(_, _)
Split(s, sep) ==
  LET cuts == {i \in 1..Len(s) : s[i] = sep}
  IN IF cuts = {} THEN <<s>>
     ELSE LET k == SetMin(cuts)
          IN <<SubSeq(s, 1, k - 1)>> \o Split(SubSeq(s, k + 1, Len(s)), sep)

\* Array.prototype.join(sep)
RECURSIVE Join(_, _)
Join(parts, sep) ==
  IF Len(parts) = 0 THEN <<>>
  ELSE IF Len(parts) = 1 THEN parts[1]
  ELSE parts[1] \o sep \o Join(Tail(parts), sep)

\* word.charAt(0).toUpperCase() + word.slice(1)
Capitalize(word) ==
  IF Len(word) = 0 THEN <<>> ELSE <<ToUpperChar(word[1])>> \o Tail(word)

(***************************************************************************)
(* Content collection: schema of a document's frontmatter                  *)
(***************************************************************************)
Development == <<"d", "e", "v", "e", "l", "o", "p", "m", "e", "n", "t">>
Automation == <<"a", "u", "t", "o", "m", "a", "t", "i", "o", "n">>
Support == <<"s", "u", "p", "p", "o", "r", "t">>
Categories == {Development, Automation, Support}

\* variant: title declared optional
SchemaTitleOptional(data) ==
  /\ data.app # Undefined
  /\ data.category \in Categories

\* z.object({ title: z.string(), description: z.string().optional(), app: z.string(),
\*            category: z.enum([...]), ... }): a required key must be present
SchemaValid(data) ==
  /\ data.title # Undefined
  /\ data.app # Undefined
  /\ data.category \in Categories

(***************************************************************************)
(* Index builder: the record derived from one document                     *)
(***************************************************************************)
\* variant: markup removed before the cut instead of after it
ExcerptStripFirst(content) ==
  Trim(Slice(StripMarkup(content), 0, ExcerptLen)) \o Ellipsis

\* content.slice(0, 200).replace(/[#*BQ]/g, '').trim() + '...'
Excerpt(content) == Trim(StripMarkup(Slice(content, 0, ExcerptLen))) \o Ellipsis

\* variant: only the first word capitalised
FormatAppNameFirstWord(app) == Capitalize(Join(Split(app, "-"), <<" ">>))

\* app.split('-').map(word => word.charAt(0).toUpperCase() + word.slice(1)).join(' ')
FormatAppName(app) ==
  LET words == Split(app, "-")
  IN Join([i \in 1..Len(words) |-> Capitalize(words[i])], <<" ">>)

\* matches of /\b[a-zA-Z]{3,}\b/g in s, in order of occurrence: the maximal runs of
\* letters of length 3 or more that have no word character next to them
RunEnd(s, i) ==
  SetMin({j \in i..Len(s) : j = Len(s) \/ ~IsAlpha(s[j + 1])})
\* variant: every run of three or more letters, whatever stands next to it
WordStartsAnyRun(s) ==
  {i \in 1..Len(s) :
     /\ IsAlpha(s[i])
     /\ (i = 1 \/ ~IsAlpha(s[i - 1]))
     /\ RunEnd(s, i) - i + 1 >= 3}
WordStarts(s) ==
  {i \in 1..Len(s) :
     /\ IsAlpha(s[i])
     /\ (i = 1 \/ ~IsWordChar(s[i - 1]))
     /\ RunEnd(s, i) - i + 1 >= 3
     /\ (RunEnd(s, i) = Len(s) \/ ~IsWordChar(s[RunEnd(s, i) + 1]))}
RECURSIVE WordsFrom(_, _)
WordsFrom(s, starts) ==
  IF starts = {} THEN <<>>
  ELSE LET i == SetMin(starts)
       IN <<SubSeq(s, i, RunEnd(s, i))>> \o WordsFrom(s, starts \ {i})
MatchWords(s) == WordsFrom(s, WordStarts(s))

\* content.toLowerCase().match(/\b[a-zA-Z]{3,}\b/g)?.slice(0, 50).join(' ') || ''
ContentKeywords(content) ==
  LET found == MatchWords(ToLowerCase(content))
  IN IF Len(found) = 0 THEN <<>>
     ELSE JsOr(Join(SubSeq(found, 1, Min(KeywordLimit, Len(found))), <<" ">>), <<>>)

\* the callback of docs.map
IndexRecord(doc) ==
  LET content == JsOr(doc.body, <<>>)
      excerpt == Excerpt(content)
      app == Split(doc.slug, "/")[1]
  IN [title |-> doc.data.title,
      description |-> JsOr(doc.data.description, excerpt),
      url |-> <<"/">> \o doc.slug,
      app |-> FormatAppName(app),
      category |-> doc.data.category,
      tags |-> IF doc.data.tags = Undefined THEN <<>> ELSE doc.data.tags,
      content |-> content,
      excerpt |-> excerpt,
      keywords |-> ContentKeywords(content),
      lastUpdated |-> JsOr(doc.data.lastUpdated, Null)]

\* variant: records emitted in reverse order
SearchIndexReversed(ds) == [i \in 1..Len(ds) |-> IndexRecord(ds[Len(ds) + 1 - i])]

\* const searchIndex = docs.map(doc => ...)
SearchIndex(ds) == [i \in 1..Len(ds) |-> IndexRecord(ds[i])]

(***************************************************************************)
(* Inputs of the build: bounded families of documents                      *)
(***************************************************************************)
RECURSIVE TextsUpTo(_, _)
TextsUpTo(alphabet, n) ==
  IF n = 0 THEN {<<>>}
  ELSE LET shorter == TextsUpTo(alphabet, n - 1)
       IN shorter \cup {Append(t, c) : t \in shorter, c \in alphabet}

Repeat(c, n) == [i \in 1..n |-> c]

BodyAlphabet == {"#", "*", " ", "a"}
EdgeAlphabet == {"#", "*", Backquote, " ", "\n", "a"}
ShortBodies == TextsUpTo(BodyAlphabet, MaxBodyLen)
\* bodies around the 200-character cut: one optional character, a run of letters,
\* one optional character
LongBodies ==
  {head \o Repeat("a", k) \o tail :
     head \in TextsUpTo(EdgeAlphabet, 1),
     tail \in TextsUpTo(EdgeAlphabet, 1),
     k \in (ExcerptLen - 2)..(ExcerptLen + 1)}
Bodies == ShortBodies \cup LongBodies \cup {Undefined}

SampleTitle == <<"G", "u", "a">>
SampleApp == <<"A", "b">>
SampleDate == <<"2025-07-15">>
Titles == {Undefined, SampleTitle}
Apps == {Undefined, SampleApp}
Descriptions == {Undefined, <<>>, <<"u", "u">>}

\* the i-th identifier of a collection: identifiers are unique
SlugAt(i) == <<"a", "-", "b">> \o Repeat("u", i - 1) \o <<"/", "g">>

MkDoc(slug, title, description, app, body) ==
  [slug |-> slug,
   data |-> [title |-> title, description |-> description, app |-> app,
             category |-> Development, tags |-> Undefined, lastUpdated |-> SampleDate],
   body |-> body]

\* collections of one document, of every shape
SingleDocSets ==
  {<<MkDoc(SlugAt(1), t, d, a, b)>> :
     t \in Titles, d \in Descriptions, a \in Apps, b \in Bodies}

\* collections of several documents, each of one of a few shapes
Shapes ==
  {<<SampleTitle, Undefined, SampleApp, <<"a", "#">>>>,
   <<SampleTitle, <<"u", "u">>, SampleApp, <<" ", "a">>>>,
   <<Undefined, Undefined, SampleApp, <<"a">>>>,
   <<SampleTitle, <<>>, Undefined, <<>>>>}
ManyDocSets ==
  UNION {{[i \in 1..n |-> MkDoc(SlugAt(i), sh[i][1], sh[i][2], sh[i][3], sh[i][4])] :
            sh \in [1..n -> Shapes]} : n \in {0} \cup (2..MaxDocs)}

\* bodies of words: letters of both cases, a digit and spaces
WordAlphabet == {"a", "B", "1", " "}
WordBodies == TextsUpTo(WordAlphabet, MaxWordBodyLen)
\* bodies of n three-letter words, around the limit of 50 keywords, the first word
\* standing alone or followed by a digit or an underscore, the last word the same
\* as the others or a word of its own
WordRun(n) == Join([i \in 1..n |-> <<"a", "B", "u">>], <<" ">>)
ManyWordBodies ==
  {head \o WordRun(n) \o tail :
     head \in {<<>>, <<"g", "u", "a", "1", " ">>, <<"g", "u", "a", "_", " ">>,
               <<"g", "u", "a", " ">>},
     n \in (KeywordLimit - 2)..(KeywordLimit + 1),
     tail \in {<<>>, <<" ", "g", "a", "b">>}}
WordDocSets ==
  {<<MkDoc(SlugAt(1), SampleTitle, description, SampleApp, b)>> :
     b \in WordBodies \cup ManyWordBodies, description \in {Undefined, <<"a", " ", "a">>}}

\* identifiers: path segments joined by "/", the first one naming the application
SlugAlphabet == {"a", "G", "-", "/"}
ApplicationOne ==
  <<"a", "p", "p", "l", "i", "c", "a", "t", "i", "o", "n", "-", "o", "n", "e">>
ApplicationTwo ==
  <<"a", "p", "p", "l", "i", "c", "a", "t", "i", "o", "n", "-", "t", "w", "o">>
IsSlug(s) ==
  /\ Len(s) > 0
  /\ s[1] # "/"
  /\ s[Len(s)] # "/"
  /\ \A i \in 1..(Len(s) - 1) : ~(s[i] = "/" /\ s[i + 1] = "/")
Slugs ==
  {s \in TextsUpTo(SlugAlphabet, MaxSlugLen) : IsSlug(s)}
    \cup {ApplicationOne \o <<"/">> \o Support, ApplicationTwo \o <<"/">> \o Development}
SlugDocSets ==
  {<<MkDoc(slug, SampleTitle, Undefined, SampleApp, <<"a">>)>> : slug \in Slugs}

DocSets == SingleDocSets \cup ManyDocSets \cup WordDocSets \cup SlugDocSets

(***************************************************************************)
(* The served artifact: JSON.stringify(searchIndex) and response.json()    *)
(***************************************************************************)
\* Date.prototype.toJSON: the ISO-8601 text of a date
ToISOString(date) == <<date[1] \o "T00:00:00.000Z">>

\* a record after JSON.stringify and JSON.parse: text and arrays are kept, a date
\* becomes its ISO text, null stays null
Dates == {SampleDate}
JsonField(r, f) == IF f = "lastUpdated" /\ r[f] \in Dates THEN ToISOString(r[f]) ELSE r[f]
JsonRecord(r) == [f \in DOMAIN r |-> JsonField(r, f)]
JsonRoundTrip(index) == [i \in 1..Len(index) |-> JsonRecord(index[i])]

\* a variant of the endpoint's callback without the excerpt as description
IndexRecordPlainNoFallback(doc) ==
  LET content == JsOr(doc.body, <<>>)
      excerpt == Excerpt(content)
      app == Split(doc.slug, "/")[1]
  IN [title |-> doc.data.title,
      description |-> doc.data.description,
      url |-> <<"/">> \o doc.slug,
      app |-> FormatAppName(app),
      category |-> doc.data.category,
      tags |-> IF doc.data.tags = Undefined THEN <<>> ELSE doc.data.tags,
      content |-> content,
      excerpt |-> excerpt,
      lastUpdated |-> IF doc.data.lastUpdated = Undefined THEN Null
                      ELSE ToISOString(doc.data.lastUpdated)]

\* the callback of docs.map in the endpoint without keywords
IndexRecordPlain(doc) ==
  LET content == JsOr(doc.body, <<>>)
      excerpt == Excerpt(content)
      app == Split(doc.slug, "/")[1]
  IN [title |-> doc.data.title,
      description |-> JsOr(doc.data.description, excerpt),
      url |-> <<"/">> \o doc.slug,
      app |-> FormatAppName(app),
      category |-> doc.data.category,
      tags |-> IF doc.data.tags = Undefined THEN <<>> ELSE doc.data.tags,
      content |-> content,
      excerpt |-> excerpt,
      lastUpdated |-> IF doc.data.lastUpdated = Undefined THEN Null
                      ELSE JsOr(ToISOString(doc.data.lastUpdated), Null)]

\* the callback of docs.map in scripts/test-search.js
TestIndexRecord(doc) ==
  LET content == JsOr(doc.body, <<>>)
      excerpt == Excerpt(content)
      app == Split(doc.slug, "/")[1]
  IN [title |-> doc.data.title,
      description |-> JsOr(doc.data.description, excerpt),
      url |-> <<"/">> \o doc.slug,
      app |-> FormatAppName(app),
      category |-> doc.data.category,
      content |-> content,
      excerpt |-> excerpt]

\* the documents of the published site: n documents of one application family
SiteDoc(i) ==
  [slug |-> SlugAt(i),
   data |-> [title |-> IF i % 3 = 0 THEN <<"G", "a", "a">> ELSE SampleTitle,
             description |-> IF i % 2 = 1 THEN <<"a", " ", "a">> ELSE Undefined,
             app |-> SampleApp,
             category |-> IF i = 1 THEN Automation ELSE Development,
             tags |-> IF i = 1 THEN <<<<"a", "a">>, <<"u">>>> ELSE Undefined,
             lastUpdated |-> IF i = 2 THEN Undefined ELSE SampleDate],
   body |-> IF i <= 3 THEN <<"#", " ", "a", "a", "u">> ELSE <<"u">>]
SiteDocs(n) == [i \in 1..n |-> SiteDoc(i)]
SiteSizes == {3, SiteSize}

(***************************************************************************)
(* The match engine: Fuse over the loaded records, with the options of the *)
(* search box.  Patterns of the model are shorter than four characters, so  *)
(* that threshold 0.3 admits no edit: a key matches when the lower-cased    *)
(* text holds the lower-cased pattern near enough to its start.            *)
(***************************************************************************)
NoFuse == <<"no engine">>

\* variant: the body is a seventh key
FuseKeysWithContent ==
  <<[name |-> "title", weight |-> 30],
    [name |-> "tags", weight |-> 25],
    [name |-> "description", weight |-> 20],
    [name |-> "keywords", weight |-> 10],
    [name |-> "app", weight |-> 10],
    [name |-> "category", weight |-> 5],
    [name |-> "content", weight |-> 5]>>

\* options.keys, weights in hundredths
FuseKeys ==
  <<[name |-> "title", weight |-> 30],
    [name |-> "tags", weight |-> 25],
    [name |-> "description", weight |-> 20],
    [name |-> "keywords", weight |-> 10],
    [name |-> "app", weight |-> 10],
    [name |-> "category", weight |-> 5]>>

\* 0-based positions of pattern in text
Positions(text, pattern) ==
  {p \in 0..(Len(text) - Len(pattern)) : SubSeq(text, p + 1, p + Len(pattern)) = pattern}

\* one text of a key matches: minMatchCharLength and threshold * distance
TextMatches(text, pattern) ==
  /\ Len(pattern) >= MinMatchCharLength
  /\ \E p \in Positions(ToLowerCase(text), ToLowerCase(pattern)) :
       p * 100 <= ThresholdPct * FuseDistance

\* a key of a record matches: a text key by its text, an array key by any element
KeyMatches(record, name, pattern) ==
  LET value == record[name]
  IN IF name = "tags"
     THEN \E i \in 1..Len(value) : TextMatches(value[i], pattern)
     ELSE value # Undefined /\ TextMatches(value, pattern)

MatchedKeys(record, pattern) ==
  {k \in 1..Len(FuseKeys) : KeyMatches(record, FuseKeys[k].name, pattern)}

RECURSIVE WeightSum(_)
WeightSum(keys) ==
  IF keys = {} THEN 0
  ELSE LET k == SetMin(keys) IN FuseKeys[k].weight + WeightSum(keys \ {k})

\* lower is better: the more weight of the keys matches, the lower the score
FuseScore(record, pattern) == 100 - WeightSum(MatchedKeys(record, pattern))

ScoreOrder(a, b) ==
  a.score < b.score \/ (a.score = b.score /\ a.refIndex < b.refIndex)

\* fuse.search(query): the matching records, score ascending
FuseSearch(index, pattern) ==
  LET hits == {i \in 1..Len(index) : MatchedKeys(index[i], pattern) # {}}
      unsorted == [k \in 1..Cardinality(hits) |->
                     LET i == CHOOSE j \in hits :
                                Cardinality({h \in hits : h < j}) = k - 1
                     IN [item |-> index[i], refIndex |-> i - 1,
                         score |-> FuseScore(index[i], pattern)]]
  IN SortSeq(unsorted, ScoreOrder)

(***************************************************************************)
(* State                                                                   *)
(***************************************************************************)
NoArtifact == <<"no artifact">>
NoPattern == <<"no pattern">>
NoLocation == <<"no location">>
NoEvent == <<"none", "">>

VARIABLES
  docs,          \* build: the content collection
  buildStatus,   \* build: "pending", "built" or "failed"
  artifact,      \* build: the records behind /search-index.json, or NoArtifact
  domReady,      \* client: DOMContentLoaded has fired and the listeners exist
  pc,            \* client: where initializeSearch stands
  searchIndex,   \* client: let searchIndex
  fuse,          \* client: let fuse (the records the engine was built over), or NoFuse
  fetchCount,    \* client: fetches of /search-index.json issued
  errorLog,      \* client: console.error lines
  unhandled,     \* client: an exception left initializeSearch
  inputValue,    \* client: value of #search-input
  focused,       \* client: #search-input has the focus
  timers,        \* client: timers pending in the event loop
  searchTimeout, \* client: let searchTimeout (0: undefined)
  hidden,        \* client: #search-results carries the class hidden
  content,       \* client: innerHTML of #search-results-content
  executed,      \* client: the query the last step ran search with, or NoPattern
  executedBy,    \* client: what ran it: "timer", "focus" or "none"
  invoked,       \* client: the last step called fuse.search
  lastPattern,   \* client: argument of the latest fuse.search call
  results,       \* client: value of the latest fuse.search call
  sinceInput,    \* client: time since the latest input event, up to DebounceMs
  firedSinceInput, \* client: timer callbacks run since the latest input event
  cancelled,     \* client: the latest input event cleared a pending timer
  typedIn,       \* client: the load state in which the latest input event occurred
  lastEvent,     \* client: type and detail of the DOM event the last step handled
  opened,        \* client: the href the last step followed, or NoLocation
  dismissed,     \* client: Escape or a click outside hid the panel, and no input or
                 \*         focus event has occurred since
  nativeShare,   \* share: navigator.share is defined
  shareLabel,    \* share: innerHTML of #share-button
  shareAwaiting, \* share: click handlers suspended at their await
  shareTimers,   \* share: originalText of the pending reset timers, oldest first
  shareLog,      \* share: console lines of the click handlers
  currentPath,   \* navigation: Astro.url.pathname of the page being rendered
  sidebar,       \* navigation: the application sections of the sidebar, or NotRendered
  home,          \* navigation: the application cards of the home page, or NotRendered
  headings,      \* contents: the h1-h4 elements of .prose-content
  toc,           \* contents: the links of #toc, or NotRendered
  lastEntries,   \* contents: the entries of the latest intersection callback
  plainArtifact, \* build: the records of the endpoint variant without keywords
  scriptIndex    \* build: searchIndex of scripts/test-search.js

buildVars == <<docs, buildStatus, artifact>>
loadVars == <<domReady, pc, searchIndex, fuse, fetchCount, errorLog, unhandled>>
boxVars == <<inputValue, focused, timers, searchTimeout, sinceInput, firedSinceInput,
             cancelled, typedIn>>
eventVars == <<lastEvent, opened, dismissed>>
panelVars == <<hidden, content, executed, executedBy, invoked, lastPattern, results>>
clientVars == <<loadVars, boxVars, panelVars, eventVars>>
shareVars == <<nativeShare, shareLabel, shareAwaiting, shareTimers, shareLog>>
navVars == <<currentPath, sidebar, home>>
tocVars == <<headings, toc, lastEntries>>
variantVars == <<plainArtifact, scriptIndex>>
siteVars == <<shareVars, navVars, tocVars, variantVars>>
vars == <<buildVars, clientVars, siteVars>>

NotRun == [status |-> "not run", items |-> <<>>]
IndexOf(items) == [status |-> "ran", items |-> items]
NotRendered == [status |-> "not rendered", items |-> <<>>]
ShareLabel == "Share"
CopiedLabel == "Copied!"

\* the rest of the site before any of its scripts or templates has run
SiteIdle ==
  /\ nativeShare = FALSE
  /\ shareLabel = ShareLabel
  /\ shareAwaiting = 0
  /\ shareTimers = <<>>
  /\ shareLog = <<>>
  /\ currentPath = <<"/">>
  /\ sidebar = NotRendered
  /\ home = NotRendered
  /\ headings = <<>>
  /\ toc = NotRendered
  /\ lastEntries = <<>>
  /\ plainArtifact = NotRun
  /\ scriptIndex = NotRun

EmptyContent == [kind |-> "empty", items |-> <<>>]

\* the page as served, before any script has run
ClientInit ==
  /\ domReady = FALSE
  /\ pc = "idle"
  /\ searchIndex = <<>>
  /\ fuse = NoFuse
  /\ fetchCount = 0
  /\ errorLog = <<>>
  /\ unhandled = FALSE
  /\ inputValue = <<>>
  /\ focused = FALSE
  /\ timers = {}
  /\ searchTimeout = 0
  /\ hidden = TRUE
  /\ content = EmptyContent
  /\ executed = NoPattern
  /\ executedBy = "none"
  /\ invoked = FALSE
  /\ lastPattern = NoPattern
  /\ results = <<>>
  /\ sinceInput = DebounceMs
  /\ firedSinceInput = 0
  /\ cancelled = FALSE
  /\ typedIn = "none"
  /\ lastEvent = NoEvent
  /\ opened = NoLocation
  /\ dismissed = FALSE

(***************************************************************************)
(* The site build                                                          *)
(***************************************************************************)
AllValid(ds) == \A i \in 1..Len(ds) : SchemaValid(ds[i].data)

BuildInit ==
  /\ docs \in DocSets
  /\ buildStatus = "pending"
  /\ artifact = NoArtifact
  /\ ClientInit
  /\ SiteIdle

\* getCollection('docs') returns the validated entries; the endpoint module maps them
BuildIndex ==
  /\ buildStatus = "pending"
  /\ AllValid(docs)
  /\ artifact' = SearchIndex(docs)
  /\ buildStatus' = "built"
  /\ UNCHANGED <<docs, clientVars, siteVars>>

\* an entry that does not satisfy the schema fails the build
BuildAbort ==
  /\ buildStatus = "pending"
  /\ ~AllValid(docs)
  /\ artifact' = NoArtifact
  /\ buildStatus' = "failed"
  /\ UNCHANGED <<docs, clientVars, siteVars>>

BuildNext == BuildIndex \/ BuildAbort
BuildSpec == BuildInit /\ [][BuildNext]_vars

(***************************************************************************)
(* The other builders of the index                                         *)
(***************************************************************************)
\* the endpoint without keywords is built
BuildPlainIndex ==
  /\ plainArtifact = NotRun
  /\ AllValid(docs)
  /\ plainArtifact' = IndexOf([i \in 1..Len(docs) |-> IndexRecordPlain(docs[i])])
  /\ UNCHANGED scriptIndex
  /\ UNCHANGED <<buildVars, clientVars, shareVars, navVars, tocVars>>

\* testSearchIndex()
TestSearchIndex ==
  /\ scriptIndex = NotRun
  /\ AllValid(docs)
  /\ scriptIndex' = IndexOf([i \in 1..Len(docs) |-> TestIndexRecord(docs[i])])
  /\ UNCHANGED plainArtifact
  /\ UNCHANGED <<buildVars, clientVars, shareVars, navVars, tocVars>>

\* documents that differ in the fields the builders treat with || and ?.
VariantDocs ==
  {[slug |-> slug,
    data |-> [title |-> SampleTitle, description |-> d, app |-> SampleApp,
              category |-> c, tags |-> t, lastUpdated |-> u],
    body |-> b] :
     slug \in {SlugAt(1), ApplicationOne \o <<"/">> \o Support},
     d \in Descriptions,
     c \in {Development, Support},
     t \in {Undefined, <<>>, <<<<"a", "a">>, <<"u">>>>},
     u \in {Undefined} \cup Dates,
     b \in {Undefined, <<>>, <<"a", "#">>, <<" ", "a", "u", " ">>}}
VariantDocSets == {<<d>> : d \in VariantDocs}

VariantInit ==
  /\ docs \in VariantDocSets
  /\ buildStatus = "pending"
  /\ artifact = NoArtifact
  /\ ClientInit
  /\ SiteIdle

VariantNext == BuildIndex \/ BuildPlainIndex \/ TestSearchIndex
VariantSpec == VariantInit /\ [][VariantNext]_vars

(***************************************************************************)
(* Search box: results panel                                               *)
(***************************************************************************)
\* variant: one entry too many
RenderedItemsOffByOne(rs) ==
  LET top == Slice(rs, 0, RenderLimit + 1)
  IN [i \in 1..Len(top) |->
        [href |-> top[i].item.url, title |-> top[i].item.title,
         app |-> top[i].item.app, excerpt |-> JsOr(top[i].item.excerpt, <<>>)]]

\* results.slice(0, 10).map(result => `<a href=...>title, app, excerpt</a>`)
RenderedItems(rs) ==
  LET top == Slice(rs, 0, RenderLimit)
  IN [i \in 1..Len(top) |->
        [href |-> top[i].item.url, title |-> top[i].item.title,
         app |-> top[i].item.app, excerpt |-> JsOr(top[i].item.excerpt, <<>>)]]

\* variant: an empty result list hides the panel
DisplayResultsHideEmpty(rs) ==
  /\ content' = IF Len(rs) = 0 THEN content
                ELSE [kind |-> "list", items |-> RenderedItems(rs)]
  /\ hidden' = (Len(rs) = 0)

\* function displayResults(results)
DisplayResults(rs) ==
  /\ content' = IF Len(rs) = 0
                THEN [kind |-> "No results found", items |-> <<>>]
                ELSE [kind |-> "list", items |-> RenderedItems(rs)]
  /\ hidden' = FALSE

\* function hideResults()
HideResults ==
  /\ hidden' = TRUE
  /\ UNCHANGED content

\* variant: the engine is used whether or not it was constructed
SearchUnguarded(query, by) ==
  /\ executed' = query
  /\ executedBy' = by
  /\ IF Trim(query) = <<>>
       THEN /\ HideResults
            /\ invoked' = FALSE
            /\ UNCHANGED <<lastPattern, results>>
       ELSE LET found == IF fuse = NoFuse THEN <<>> ELSE FuseSearch(fuse, query)
            IN /\ invoked' = TRUE
               /\ lastPattern' = query
               /\ results' = found
               /\ DisplayResults(found)

\* variant: the guard tests the raw text, !query, instead of !query.trim()
SearchNoTrim(query, by) ==
  /\ executed' = query
  /\ executedBy' = by
  /\ IF fuse = NoFuse \/ query = <<>>
       THEN /\ HideResults
            /\ invoked' = FALSE
            /\ UNCHANGED <<lastPattern, results>>
       ELSE LET found == FuseSearch(fuse, query)
            IN /\ invoked' = TRUE
               /\ lastPattern' = query
               /\ results' = found
               /\ DisplayResults(found)

\* function search(query)
Search(query, by) ==
  /\ executed' = query
  /\ executedBy' = by
  /\ IF fuse = NoFuse \/ Trim(query) = <<>>
       THEN /\ HideResults
            /\ invoked' = FALSE
            /\ UNCHANGED <<lastPattern, results>>
       ELSE LET found == FuseSearch(fuse, query)
            IN /\ invoked' = TRUE
               /\ lastPattern' = query
               /\ results' = found
               /\ DisplayResults(found)

\* a step that runs no search
NoSearch ==
  /\ executed' = NoPattern
  /\ executedBy' = "none"
  /\ invoked' = FALSE
  /\ UNCHANGED <<lastPattern, results>>

(***************************************************************************)
(* Search box: initializeSearch                                            *)
(***************************************************************************)
LoadState ==
  CASE pc = "idle" -> "Uninitialized"
    [] pc \in {"import", "fetch", "json"} -> "Loading"
    [] pc = "ready" -> "Ready"
    [] pc = "failed" -> "Failed"

\* variant: no try/catch around the body
RethrowLoadError(reason) ==
  /\ pc' = "failed"
  /\ unhandled' = TRUE
  /\ UNCHANGED errorLog

\* catch (error) { console.error('Failed to load search index:', error); }
CatchLoadError(reason) ==
  /\ pc' = "failed"
  /\ errorLog' = Append(errorLog, reason)
  /\ UNCHANGED unhandled

PanelIdle == NoSearch /\ UNCHANGED <<hidden, content>>

\* the step handles the given DOM event (NoEvent: a promise or timer callback, or
\* time passing) and follows no link
Dismissals == {<<"click", "outside">>, <<"keydown", "Escape">>}
Heard(event) ==
  /\ lastEvent' = event
  /\ opened' = NoLocation
  /\ dismissed' = IF event \in Dismissals THEN domReady
                  ELSE IF event \in {<<"input", "">>, <<"focus", "">>} THEN FALSE
                  ELSE dismissed

\* the DOMContentLoaded listener: initializeSearch() runs up to its first await and
\* the listeners of the input are added
DOMContentLoaded ==
  /\ ~domReady
  /\ domReady' = TRUE
  /\ pc' = "import"
  /\ PanelIdle
  /\ Heard(<<"DOMContentLoaded", "">>)
  /\ UNCHANGED <<searchIndex, fuse, fetchCount, errorLog, unhandled, boxVars, buildVars, siteVars>>

\* await import('fuse.js') resolves; fetch('/search-index.json') is issued
ImportOk ==
  /\ pc = "import"
  /\ pc' = "fetch"
  /\ fetchCount' = fetchCount + 1
  /\ PanelIdle
  /\ Heard(NoEvent)
  /\ UNCHANGED <<domReady, searchIndex, fuse, errorLog, unhandled, boxVars, buildVars, siteVars>>

\* await import('fuse.js') rejects
ImportFail ==
  /\ pc = "import"
  /\ CatchLoadError("import")
  /\ PanelIdle
  /\ Heard(NoEvent)
  /\ UNCHANGED <<domReady, searchIndex, fuse, fetchCount, boxVars, buildVars, siteVars>>

\* await fetch(...) resolves with response.ok; response.json() is awaited
FetchOk ==
  /\ pc = "fetch"
  /\ pc' = "json"
  /\ PanelIdle
  /\ Heard(NoEvent)
  /\ UNCHANGED <<domReady, searchIndex, fuse, fetchCount, errorLog, unhandled,
                 boxVars, buildVars, siteVars>>

\* await fetch(...) resolves with !response.ok: throw new Error(`HTTP error! ...`)
FetchHttpError ==
  /\ pc = "fetch"
  /\ \E status \in {"404", "500"} : CatchLoadError(status)
  /\ PanelIdle
  /\ Heard(NoEvent)
  /\ UNCHANGED <<domReady, searchIndex, fuse, fetchCount, boxVars, buildVars, siteVars>>

\* variant: a rejected fetch is issued again
FetchNetworkErrorRetry ==
  /\ pc = "fetch"
  /\ fetchCount < MaxTimers
  /\ fetchCount' = fetchCount + 1
  /\ PanelIdle
  /\ Heard(NoEvent)
  /\ UNCHANGED <<domReady, pc, searchIndex, fuse, errorLog, unhandled, boxVars, buildVars, siteVars>>

\* await fetch(...) rejects
FetchNetworkError ==
  /\ pc = "fetch"
  /\ CatchLoadError("network")
  /\ PanelIdle
  /\ Heard(NoEvent)
  /\ UNCHANGED <<domReady, searchIndex, fuse, fetchCount, boxVars, buildVars, siteVars>>

\* variant: the index is stored and no engine is constructed over it
JsonOkNoEngine ==
  /\ pc = "json"
  /\ searchIndex' = JsonRoundTrip(artifact)
  /\ pc' = "ready"
  /\ PanelIdle
  /\ Heard(NoEvent)
  /\ UNCHANGED <<domReady, fuse, fetchCount, errorLog, unhandled, boxVars, buildVars, siteVars>>

\* searchIndex = await response.json(); fuse = new Fuse(searchIndex, options)
JsonOk ==
  /\ pc = "json"
  /\ searchIndex' = JsonRoundTrip(artifact)
  /\ fuse' = searchIndex'
  /\ pc' = "ready"
  /\ PanelIdle
  /\ Heard(NoEvent)
  /\ UNCHANGED <<domReady, fetchCount, errorLog, unhandled, boxVars, buildVars, siteVars>>

\* await response.json() rejects: the body is not JSON
JsonFail ==
  /\ pc = "json"
  /\ CatchLoadError("json")
  /\ PanelIdle
  /\ Heard(NoEvent)
  /\ UNCHANGED <<domReady, searchIndex, fuse, fetchCount, boxVars, buildVars, siteVars>>

(***************************************************************************)
(* Search box: listeners and the debounce timer                            *)
(***************************************************************************)
QueryAlphabet == {" ", "a"}
QueryTexts == TextsUpTo(QueryAlphabet, MaxQueryLen)
TickSteps == {100, 200}

FreeTimerIds(pending) == {i \in 1..MaxTimers : \A t \in pending : t.id # i}

\* variant: the pending timer is not cleared
ClearTimeoutMissing(pending, id) == pending

\* clearTimeout(id)
ClearTimeout(pending, id) == {t \in pending : t.id # id}

\* the input listener; before DOMContentLoaded no listener exists and only the value
\* of the input changes
InputEvent ==
  /\ focused
  /\ \E text \in QueryTexts \ {inputValue} :
       /\ inputValue' = text
       /\ IF domReady
          THEN LET kept == ClearTimeout(timers, searchTimeout)
               IN /\ FreeTimerIds(kept) # {}
                  /\ LET id == SetMin(FreeTimerIds(kept))
                     IN /\ timers' = kept \cup {[id |-> id, query |-> text, elapsed |-> 0]}
                        /\ searchTimeout' = id
                  /\ cancelled' = (kept # timers)
                  /\ sinceInput' = 0
                  /\ firedSinceInput' = 0
          ELSE UNCHANGED <<timers, searchTimeout, sinceInput, firedSinceInput, cancelled>>
       /\ typedIn' = LoadState
  /\ PanelIdle
  /\ Heard(<<"input", "">>)
  /\ UNCHANGED <<focused, loadVars, buildVars, siteVars>>

\* the callback of setTimeout(() => { search(query); }, 300)
TimerFire ==
  /\ \E t \in timers :
       /\ t.elapsed >= DebounceMs
       /\ timers' = timers \ {t}
       /\ Search(t.query, "timer")
  /\ firedSinceInput' = Min(firedSinceInput + 1, MaxTimers)
  /\ Heard(NoEvent)
  /\ UNCHANGED <<inputValue, focused, searchTimeout, sinceInput, cancelled, typedIn,
                 loadVars, buildVars, siteVars>>

\* time passes
Tick ==
  /\ \E d \in TickSteps :
       /\ timers' = {[t EXCEPT !.elapsed = Min(@ + d, DebounceMs)] : t \in timers}
       /\ sinceInput' = Min(sinceInput + d, DebounceMs)
  /\ timers' # timers \/ sinceInput' # sinceInput
  /\ PanelIdle
  /\ Heard(NoEvent)
  /\ UNCHANGED <<inputValue, focused, searchTimeout, firedSinceInput, cancelled, typedIn,
                 loadVars, buildVars, siteVars>>

\* the focus listener
FocusEvent ==
  /\ ~focused
  /\ focused' = TRUE
  /\ Heard(<<"focus", "">>)
  /\ IF domReady /\ Trim(inputValue) # <<>>
     THEN Search(inputValue, "focus")
     ELSE PanelIdle
  /\ UNCHANGED <<inputValue, timers, searchTimeout, sinceInput, firedSinceInput, cancelled,
                 typedIn, loadVars, buildVars, siteVars>>

\* the document click listener, target inside #search-input
ClickInput ==
  /\ domReady
  /\ focused
  /\ PanelIdle
  /\ Heard(<<"click", "input">>)
  /\ UNCHANGED <<boxVars, loadVars, buildVars, siteVars>>

\* the document click listener, target inside #search-results
ClickResults ==
  /\ domReady
  /\ ~hidden
  /\ focused' = FALSE
  /\ lastEvent' = <<"click", "results">>
  /\ UNCHANGED dismissed
  /\ IF content.kind = "list"
     THEN \E i \in 1..Len(content.items) : opened' = content.items[i].href
     ELSE opened' = NoLocation
  /\ PanelIdle
  /\ UNCHANGED <<inputValue, timers, searchTimeout, sinceInput, firedSinceInput, cancelled,
                 typedIn, loadVars, buildVars, siteVars>>

\* the document click listener, target outside the input and the panel
ClickOutside ==
  /\ focused' = FALSE
  /\ IF domReady THEN HideResults ELSE UNCHANGED <<hidden, content>>
  /\ NoSearch
  /\ Heard(<<"click", "outside">>)
  /\ UNCHANGED <<inputValue, timers, searchTimeout, sinceInput, firedSinceInput, cancelled,
                 typedIn, loadVars, buildVars, siteVars>>

\* variant: Escape hides the panel and leaves the focus where it is
KeyEscapeNoBlur ==
  /\ domReady
  /\ focused
  /\ HideResults
  /\ NoSearch
  /\ Heard(<<"keydown", "Escape">>)
  /\ UNCHANGED <<boxVars, loadVars, buildVars, siteVars>>

\* the keydown listener, key Escape
KeyEscape ==
  /\ domReady
  /\ focused
  /\ HideResults
  /\ focused' = FALSE
  /\ NoSearch
  /\ Heard(<<"keydown", "Escape">>)
  /\ UNCHANGED <<inputValue, timers, searchTimeout, sinceInput, firedSinceInput, cancelled,
                 typedIn, loadVars, buildVars, siteVars>>

\* the keydown listener, any key but Escape: the handler tests e.key === 'Escape' and
\* does nothing else; the keys have no default action on the panel
NavigationKeys == {"ArrowDown", "ArrowUp", "Enter"}
KeyOther ==
  /\ domReady
  /\ focused
  /\ \E key \in NavigationKeys : Heard(<<"keydown", key>>)
  /\ PanelIdle
  /\ UNCHANGED <<boxVars, loadVars, buildVars, siteVars>>

\* one page load of the built site
Init ==
  /\ \E n \in SiteSizes : docs = SiteDocs(n)
  /\ buildStatus = "built"
  /\ artifact = SearchIndex(docs)
  /\ ClientInit
  /\ SiteIdle

Next ==
  \/ DOMContentLoaded
  \/ ImportOk
  \/ ImportFail
  \/ FetchOk
  \/ FetchHttpError
  \/ FetchNetworkError
  \/ JsonOk
  \/ JsonFail
  \/ InputEvent
  \/ TimerFire
  \/ Tick
  \/ FocusEvent
  \/ ClickInput
  \/ ClickResults
  \/ ClickOutside
  \/ KeyEscape
  \/ KeyOther

Spec == Init /\ [][Next]_vars

(***************************************************************************)
(* Properties of the build                                                 *)
(***************************************************************************)
(***************************************************************************)
(* Document page: the Share button                                         *)
(***************************************************************************)
\* a page of the built site whose search box has not started
ServedSite ==
  /\ docs = SiteDocs(SetMin(SiteSizes))
  /\ buildStatus = "built"
  /\ artifact = SearchIndex(docs)
  /\ ClientInit

\* the click listener of #share-button runs up to its await: navigator.share(...)
\* or navigator.clipboard.writeText(url)
ShareClick ==
  /\ shareAwaiting < MaxShareClicks
  /\ shareAwaiting' = shareAwaiting + 1
  /\ UNCHANGED <<nativeShare, shareLabel, shareTimers, shareLog>>
  /\ UNCHANGED <<buildVars, clientVars, navVars, tocVars, variantVars>>

\* await navigator.share({ title, url }) resolves
NativeShared ==
  /\ nativeShare
  /\ shareAwaiting > 0
  /\ shareAwaiting' = shareAwaiting - 1
  /\ UNCHANGED <<nativeShare, shareLabel, shareTimers, shareLog>>
  /\ UNCHANGED <<buildVars, clientVars, navVars, tocVars, variantVars>>

\* await navigator.share(...) rejects: console.log('Share canceled')
NativeCanceled ==
  /\ nativeShare
  /\ shareAwaiting > 0
  /\ shareAwaiting' = shareAwaiting - 1
  /\ shareLog' = <<"Share canceled">>
  /\ UNCHANGED <<nativeShare, shareLabel, shareTimers>>
  /\ UNCHANGED <<buildVars, clientVars, navVars, tocVars, variantVars>>

\* await navigator.clipboard.writeText(url) resolves: originalText = this.innerHTML,
\* the button shows Copied!, and setTimeout(() => { this.innerHTML = originalText }, 2000)
CopyResolved ==
  /\ ~nativeShare
  /\ shareAwaiting > 0
  /\ Len(shareTimers) < MaxShareClicks
  /\ shareAwaiting' = shareAwaiting - 1
  /\ shareTimers' = Append(shareTimers, shareLabel)
  /\ shareLabel' = CopiedLabel
  /\ UNCHANGED <<nativeShare, shareLog>>
  /\ UNCHANGED <<buildVars, clientVars, navVars, tocVars, variantVars>>

\* await navigator.clipboard.writeText(url) rejects: console.error(...)
CopyRejected ==
  /\ ~nativeShare
  /\ shareAwaiting > 0
  /\ shareAwaiting' = shareAwaiting - 1
  /\ shareLog' = <<"Failed to copy to clipboard:">>
  /\ UNCHANGED <<nativeShare, shareLabel, shareTimers>>
  /\ UNCHANGED <<buildVars, clientVars, navVars, tocVars, variantVars>>

\* the callback of the oldest reset timer: timers of one delay fire in the order
\* they were set
ShareTimerFire ==
  /\ shareTimers # <<>>
  /\ shareLabel' = Head(shareTimers)
  /\ shareTimers' = Tail(shareTimers)
  /\ UNCHANGED <<nativeShare, shareAwaiting, shareLog>>
  /\ UNCHANGED <<buildVars, clientVars, navVars, tocVars, variantVars>>

ShareInit ==
  /\ ServedSite
  /\ nativeShare \in BOOLEAN
  /\ shareLabel = ShareLabel
  /\ shareAwaiting = 0
  /\ shareTimers = <<>>
  /\ shareLog = <<>>
  /\ currentPath = <<"/">> \o docs[1].slug
  /\ sidebar = NotRendered
  /\ home = NotRendered
  /\ headings = <<>>
  /\ toc = NotRendered
  /\ lastEntries = <<>>
  /\ plainArtifact = NotRun
  /\ scriptIndex = NotRun

ShareNext ==
  \/ ShareClick
  \/ NativeShared
  \/ NativeCanceled
  \/ CopyResolved
  \/ CopyRejected
  \/ ShareTimerFire

ShareSpec == ShareInit /\ [][ShareNext]_vars

(***************************************************************************)
(* Navigation: grouping by application, sidebar and home page              *)
(***************************************************************************)
\* a.localeCompare(b): characters compare by their collation weight, punctuation
\* before digits before letters, letters without regard to case; texts that differ
\* only in case compare lower case first
CollationWeight(c) ==
  CASE c = "_" -> 1
    [] c = "-" -> 2
    [] c = "/" -> 3
    [] c = "0" -> 4
    [] c = "1" -> 5
    [] IsAlpha(c) -> 5 + LetterIndex(ToLowerChar(c), LowerLetters)
    [] OTHER -> 0
CaseWeight(c) == IF c \in DOMAIN LowerOf THEN 1 ELSE 0
CompareKeys(a, b) ==
  LET n == Min(Len(a), Len(b))
      i == SetMin({k \in 1..(n + 1) : k > n \/ a[k] # b[k]})
  IN IF i > n
     THEN (IF Len(a) = Len(b) THEN 0 ELSE IF Len(a) < Len(b) THEN -1 ELSE 1)
     ELSE (IF a[i] < b[i] THEN -1 ELSE 1)
LocaleCompare(a, b) ==
  LET primary == CompareKeys([i \in 1..Len(a) |-> CollationWeight(a[i])],
                             [i \in 1..Len(b) |-> CollationWeight(b[i])])
  IN IF primary # 0 THEN primary
     ELSE CompareKeys([i \in 1..Len(a) |-> CaseWeight(a[i])],
                      [i \in 1..Len(b) |-> CaseWeight(b[i])])

\* text.includes(pattern)
Includes(text, pattern) ==
  \E p \in 0..(Len(text) - Len(pattern)) : SubSeq(text, p + 1, p + Len(pattern)) = pattern

\* a property every plain object inherits: acc[app] is truthy before any document
\* was stored under it, and acc[app].push is not a function
Constructor == <<"c", "o", "n", "s", "t", "r", "u", "c", "t", "o", "r">>
InheritedKeys == {Constructor}
TypeError == [threw |-> TRUE, entries |-> <<>>]

\* docs.reduce((acc, doc) => { ...; acc[app].push(doc); return acc; }, {}): the
\* entries of acc in insertion order, or TypeError
RECURSIVE Reduce(_, _)
Reduce(acc, ds) ==
  IF ds = <<>> THEN [threw |-> FALSE, entries |-> acc]
  ELSE LET doc == Head(ds)
           app == Split(doc.slug, "/")[1]
           at == {k \in 1..Len(acc) : acc[k].app = app}
       IN IF at = {} /\ app \in InheritedKeys THEN TypeError
          ELSE IF at = {}
          THEN Reduce(Append(acc, [app |-> app, docs |-> <<doc>>]), Tail(ds))
          ELSE LET k == CHOOSE k \in at : TRUE
               IN Reduce([acc EXCEPT ![k].docs = Append(@, doc)], Tail(ds))
DocsByApp(ds) == Reduce(<<>>, ds)

\* Object.entries(docsByApp).sort(([a], [b]) => a.localeCompare(b))
SortedApps(groups) == SortSeq(groups, LAMBDA x, y : LocaleCompare(x.app, y.app) < 0)

\* const [, docName] = docSlug.split('/'); docName.split('-').map(...).join(' ')
FormatDocName(docSlug) == FormatAppName(Split(docSlug, "/")[2])

\* a false attribute value is written as "false" or the attribute is left out
NoAttribute == "no attribute"
FalseAttribute == {"false", NoAttribute}

\* one application section of the sidebar as rendered for currentPath
SidebarSection(group, path, absent) ==
  LET isAppActive == Includes(path, <<"/">> \o group.app)
      appDocs == SortSeq(group.docs, LAMBDA a, b : LocaleCompare(a.slug, b.slug) < 0)
  IN [app |-> group.app,
      name |-> FormatAppName(group.app),
      active |-> isAppActive,
      expanded |-> IF isAppActive THEN "true" ELSE absent,
      rotated |-> isAppActive,
      listHidden |-> ~isAppActive,
      links |-> [j \in 1..Len(appDocs) |->
                   [href |-> <<"/">> \o appDocs[j].slug,
                    name |-> FormatDocName(appDocs[j].slug),
                    active |-> (path = <<"/">> \o appDocs[j].slug)]]]

RenderFailed == [status |-> "failed", items |-> <<>>]
Rendered(items) == [status |-> "rendered", items |-> items]

\* the Sidebar component is rendered for a document page
RenderSidebar ==
  /\ sidebar = NotRendered
  /\ currentPath # <<"/">>
  /\ LET docsByApp == DocsByApp(docs)
         sortedApps == SortedApps(docsByApp.entries)
     IN IF docsByApp.threw
        THEN sidebar' = RenderFailed
        ELSE \E absent \in FalseAttribute :
               sidebar' = Rendered([i \in 1..Len(sortedApps) |->
                                      SidebarSection(sortedApps[i], currentPath, absent)])
  /\ UNCHANGED <<currentPath, home>>
  /\ UNCHANGED <<buildVars, clientVars, shareVars, tocVars, variantVars>>

\* a variant of the listener that leaves aria-expanded as rendered
ToggleClickNoAria ==
  /\ sidebar.status = "rendered"
  /\ \E b \in 1..Len(sidebar.items) :
       LET isHidden == sidebar.items[b].listHidden
       IN sidebar' = Rendered([sidebar.items EXCEPT ![b].listHidden = ~isHidden,
                                                    ![b].rotated = isHidden])
  /\ UNCHANGED <<currentPath, home>>
  /\ UNCHANGED <<buildVars, clientVars, shareVars, tocVars, variantVars>>

\* the click listener of a .sidebar-toggle button
ToggleClick ==
  /\ sidebar.status = "rendered"
  /\ \E b \in 1..Len(sidebar.items) :
       LET app == sidebar.items[b].app
           c == SetMin({k \in 1..Len(sidebar.items) : sidebar.items[k].app = app})
           isHidden == sidebar.items[c].listHidden
           shown == [sidebar.items EXCEPT ![c].listHidden = ~isHidden]
       IN sidebar' = Rendered([shown EXCEPT
                                 ![b].rotated = isHidden,
                                 ![b].expanded = IF isHidden THEN "true" ELSE "false"])
  /\ UNCHANGED <<currentPath, home>>
  /\ UNCHANGED <<buildVars, clientVars, shareVars, tocVars, variantVars>>

\* appDocs.find(d => d.slug.includes(category)): index of the first such document, 0
\* when there is none
Find(appDocs, category) ==
  LET at == {k \in 1..Len(appDocs) : Includes(appDocs[k].slug, category)}
  IN IF at = {} THEN 0 ELSE SetMin(at)

\* const categories = ['development', 'automation', 'support']
CardCategories == <<Development, Automation, Support>>

\* one application card of the home page
HomeCard(group) ==
  LET found == SelectSeq(CardCategories, LAMBDA c : Find(group.docs, c) # 0)
  IN [app |-> group.app,
      name |-> FormatAppName(group.app),
      links |-> [j \in 1..Len(found) |->
                   [category |-> found[j],
                    href |-> <<"/">> \o group.docs[Find(group.docs, found[j])].slug]]]

\* the home page is rendered
RenderHome ==
  /\ home = NotRendered
  /\ currentPath = <<"/">>
  /\ LET docsByApp == DocsByApp(docs)
         sortedApps == SortedApps(docsByApp.entries)
     IN home' = IF docsByApp.threw THEN RenderFailed
                ELSE Rendered([i \in 1..Len(sortedApps) |-> HomeCard(sortedApps[i])])
  /\ UNCHANGED <<currentPath, sidebar>>
  /\ UNCHANGED <<buildVars, clientVars, shareVars, tocVars, variantVars>>

\* collections of documents app/category, in any enumeration order
NavApps == {<<"a">>, <<"a", "b">>, Support \o <<"-", "a">>, Constructor}
NavSlugs ==
  {app \o <<"/">> \o name : app \in NavApps \ {Constructor}, name \in {Development, Support}}
    \cup {Constructor \o <<"/">> \o Development}
RECURSIVE DistinctSeqs(_, _)
DistinctSeqs(S, n) ==
  IF n = 0 THEN {<<>>}
  ELSE LET shorter == DistinctSeqs(S, n - 1)
           longer == {Append(q, x) : q \in {r \in shorter : Len(r) = n - 1}, x \in S}
       IN shorter \cup {q \in longer : \A i \in 1..(n - 1) : q[i] # q[n]}
NavDocSets ==
  {[i \in 1..Len(q) |-> MkDoc(q[i], SampleTitle, Undefined, SampleApp, <<"a">>)] :
     q \in DistinctSeqs(NavSlugs, MaxNavDocs) \ {<<>>}}

\* Astro.url.pathname: "/" for the home page; for a document page "/" and the slug,
\* with a trailing "/" in the static build (build.format: 'directory')
PagePaths(ds) ==
  {<<"/">>} \cup {<<"/">> \o ds[k].slug : k \in 1..Len(ds)}
            \cup {<<"/">> \o ds[k].slug \o <<"/">> : k \in 1..Len(ds)}

NavInit ==
  /\ docs \in NavDocSets
  /\ buildStatus = "built"
  /\ artifact = SearchIndex(docs)
  /\ ClientInit
  /\ currentPath \in PagePaths(docs)
  /\ sidebar = NotRendered
  /\ home = NotRendered
  /\ nativeShare = FALSE
  /\ shareLabel = ShareLabel
  /\ shareAwaiting = 0
  /\ shareTimers = <<>>
  /\ shareLog = <<>>
  /\ headings = <<>>
  /\ toc = NotRendered
  /\ lastEntries = <<>>
  /\ plainArtifact = NotRun
  /\ scriptIndex = NotRun

NavNext == RenderSidebar \/ ToggleClick \/ RenderHome
NavSpec == NavInit /\ [][NavNext]_vars

(***************************************************************************)
(* Document page: the table of contents                                    *)
(***************************************************************************)
\* heading.id of a heading without an id attribute
NoId == <<>>
Digits == <<"0", "1", "2", "3", "4", "5", "6", "7", "8", "9">>
\* `heading-${index}`
HeadingId(index) == <<"h", "e", "a", "d", "i", "n", "g", "-">> \o <<Digits[index + 1]>>

\* the h1-h4 headings of .prose-content as served: their level and their id, ids
\* of rendered Markdown headings being distinct
ServedIds == {<<"a">>, HeadingId(1)}
HeadingLevels == {1, 3}
HeadingLists ==
  {hs \in UNION {[1..n -> [level : HeadingLevels, id : ServedIds \cup {NoId}]] :
                   n \in 0..MaxHeadings} :
     \A i, j \in 1..Len(hs) : (i # j /\ hs[i].id # NoId) => hs[i].id # hs[j].id}

\* headings.forEach((heading, index) => { if (!heading.id) heading.id = ... })
WithIds(hs) ==
  [i \in 1..Len(hs) |->
     [hs[i] EXCEPT !.id = IF hs[i].id = NoId THEN HeadingId(i - 1) ELSE hs[i].id]]

\* the link created for one heading
TocLink(heading) ==
  [href |-> <<"#">> \o heading.id,
   indented |-> heading.level > 2,
   fontMedium |-> heading.level = 1,
   primary |-> FALSE]

TocHidden == [status |-> "hidden", items |-> <<>>]

\* the DOMContentLoaded listener: the list of links, or the panel hidden
GenerateToc ==
  /\ toc = NotRendered
  /\ headings' = WithIds(headings)
  /\ toc' = IF Len(headings) > 0
            THEN Rendered([i \in 1..Len(headings) |-> TocLink(WithIds(headings)[i])])
            ELSE TocHidden
  /\ UNCHANGED lastEntries
  /\ UNCHANGED <<buildVars, clientVars, shareVars, navVars, variantVars>>

\* tocContainer.querySelector(`a[href="#${id}"]`): index of the first such link,
\* 0 for null
QueryLink(links, id) ==
  LET at == {k \in 1..Len(links) : links[k].href = <<"#">> \o id}
  IN IF at = {} THEN 0 ELSE SetMin(at)

\* a variant of the callback body that only marks the link of the entry
MarkOnly(links, entry, hs) ==
  LET tocLink == QueryLink(links, hs[entry.target].id)
  IN IF entry.isIntersecting /\ tocLink # 0
     THEN [links EXCEPT ![tocLink].primary = TRUE, ![tocLink].fontMedium = TRUE]
     ELSE links

\* the body of entries.forEach(entry => ...)
ObserveEntry(links, entry, hs) ==
  LET tocLink == QueryLink(links, hs[entry.target].id)
      cleared == [k \in 1..Len(links) |->
                    [links[k] EXCEPT !.primary = FALSE, !.fontMedium = FALSE]]
  IN IF ~entry.isIntersecting THEN links
     ELSE IF tocLink = 0 THEN cleared
     ELSE [cleared EXCEPT ![tocLink].primary = TRUE, ![tocLink].fontMedium = TRUE]

RECURSIVE ObserveEntries(_, _, _)
ObserveEntries(links, entries, hs) ==
  IF entries = <<>> THEN links
  ELSE ObserveEntries(ObserveEntry(links, Head(entries), hs), Tail(entries), hs)

\* the entries of one callback: one entry for each heading whose intersection
\* changed, in the order the headings were observed
RECURSIVE EntryLists(_, _)
EntryLists(from, n) ==
  IF from > n THEN {<<>>}
  ELSE LET rest == EntryLists(from + 1, n)
       IN rest \cup {<<[target |-> from, isIntersecting |-> b]>> \o r :
                       b \in BOOLEAN, r \in rest}

\* the IntersectionObserver callback
IntersectionCallback ==
  /\ toc.status = "rendered"
  /\ \E entries \in EntryLists(1, Len(headings)) \ {<<>>} :
       /\ toc' = Rendered(ObserveEntries(toc.items, entries, headings))
       /\ lastEntries' = entries
  /\ UNCHANGED headings
  /\ UNCHANGED <<buildVars, clientVars, shareVars, navVars, variantVars>>

TocInit ==
  /\ ServedSite
  /\ headings \in HeadingLists
  /\ toc = NotRendered
  /\ lastEntries = <<>>
  /\ currentPath = <<"/">> \o docs[1].slug
  /\ sidebar = NotRendered
  /\ home = NotRendered
  /\ nativeShare = FALSE
  /\ shareLabel = ShareLabel
  /\ shareAwaiting = 0
  /\ shareTimers = <<>>
  /\ shareLog = <<>>
  /\ plainArtifact = NotRun
  /\ scriptIndex = NotRun

TocNext == GenerateToc \/ IntersectionCallback
TocSpec == TocInit /\ [][TocNext]_vars

Built == buildStatus = "built"
BodyOf(doc) == IF doc.body = Undefined THEN <<>> ELSE doc.body

\* C4: the index holds exactly one record per document, in the documents'
\* enumeration order: record i carries the identifier and title of document i.
C4_OneRecordPerDocInOrder ==
  Built =>
    /\ Len(artifact) = Len(docs)
    /\ \A i \in 1..Len(docs) :
         /\ artifact[i].url = <<"/">> \o docs[i].slug
         /\ artifact[i].title = docs[i].data.title
         /\ artifact[i].content = BodyOf(docs[i])

C4_Witness ==
  /\ Built
  /\ Len(docs) >= 2
  /\ Len(artifact) = Len(docs)
  /\ artifact[1].url # artifact[2].url
  /\ artifact[1].description # artifact[2].description

\* C6: the excerpt is the first 200 characters of the body without any #, * or
\* backquote, without surrounding whitespace, followed by "..." in every case; it is
\* never longer than 203 characters.
IsExcerptOf(e, body) ==
  LET cut == [i \in 1..Min(ExcerptLen, Len(body)) |-> body[i]]
      kept == SelectSeq(cut, LAMBDA c : c \notin {"#", "*", Backquote})
      n == Len(e) - 3
      stem == [i \in 1..n |-> e[i]]
  IN /\ Len(e) >= 3
     /\ \A i \in (n + 1)..(n + 3) : e[i] = "."
     /\ Len(e) <= ExcerptLen + 3
     /\ \E lead \in 0..Len(kept) :
          /\ lead + n <= Len(kept)
          /\ \A i \in 1..n : stem[i] = kept[lead + i]
          /\ \A i \in 1..lead : IsSpace(kept[i])
          /\ \A i \in (lead + n + 1)..Len(kept) : IsSpace(kept[i])
          /\ n > 0 => ~IsSpace(stem[1]) /\ ~IsSpace(stem[n])
          /\ n = 0 => lead = 0

C6_ExcerptShape ==
  Built => \A i \in 1..Len(docs) : IsExcerptOf(artifact[i].excerpt, BodyOf(docs[i]))

C6_Witness ==
  /\ Built
  /\ Len(docs) = 1
  /\ Len(BodyOf(docs[1])) = ExcerptLen + 2
  /\ IsMarkup(docs[1].body[1])
  /\ IsAlpha(docs[1].body[ExcerptLen + 2])
  /\ Len(artifact[1].excerpt) = ExcerptLen + 2

\* C9: when a document lacks title or app, the build fails as a whole and no
\* index is produced, not even one of the remaining valid documents.
Incomplete(doc) == doc.data.title = Undefined \/ doc.data.app = Undefined

C9_MissingFieldFailsBuild ==
  (buildStatus # "pending" /\ \E i \in 1..Len(docs) : Incomplete(docs[i])) =>
    (buildStatus = "failed" /\ artifact = NoArtifact)

C9_Witness ==
  /\ buildStatus = "failed"
  /\ artifact = NoArtifact
  /\ \E i, j \in 1..Len(docs) : Incomplete(docs[i]) /\ ~Incomplete(docs[j])

\* C10: the record's description is the document's description when that is
\* present and non-empty, and the record's excerpt otherwise.
C10_DescriptionOrExcerpt ==
  Built =>
    \A i \in 1..Len(docs) :
      LET own == docs[i].data.description
      IN IF own # Undefined /\ Len(own) > 0
         THEN artifact[i].description = own
         ELSE artifact[i].description = artifact[i].excerpt

C10_Witness ==
  /\ Built
  /\ Len(docs) = 1
  /\ docs[1].data.description = <<>>
  /\ artifact[1].description = artifact[1].excerpt
  /\ Len(artifact[1].excerpt) > 3

\* runs of letters of a body, as pairs <<first, last>> of positions
RunFirsts(s) == {i \in 1..Len(s) : IsAlpha(s[i]) /\ (i = 1 \/ ~IsAlpha(s[i - 1]))}
RunLasts(s) == {j \in 1..Len(s) : IsAlpha(s[j]) /\ (j = Len(s) \/ ~IsAlpha(s[j + 1]))}
LetterRuns(s) ==
  LET lasts == RunLasts(s)
      all == {<<i, SetMin({j \in lasts : j >= i})>> : i \in RunFirsts(s)}
  IN {p \in all : p[2] - p[1] + 1 >= 3}
\* the runs that have neither a digit nor an underscore next to them
WholeWordRuns(s) ==
  {p \in LetterRuns(s) :
     /\ p[1] = 1 \/ ~IsWordChar(s[p[1] - 1])
     /\ p[2] = Len(s) \/ ~IsWordChar(s[p[2] + 1])}
\* the text made of the first 50 of the given runs, in order of occurrence,
\* lower-cased and joined by single spaces
RunAt(runs, k) == CHOOSE p \in runs : Cardinality({q \in runs : q[1] < p[1]}) = k - 1
KeywordsOfRuns(s, runs) ==
  Join([k \in 1..Min(KeywordLimit, Cardinality(runs)) |->
          ToLowerCase(SubSeq(s, RunAt(runs, k)[1], RunAt(runs, k)[2]))], <<" ">>)
KeywordList(text) == IF text = <<>> THEN <<>> ELSE Split(text, " ")

\* C11 as stated: keywords are the first 50 of all runs of 3 or more alphabetic
\* characters of the lower-cased body, joined by single spaces.
C11_AllLetterRuns ==
  Built =>
    \A i \in 1..Len(docs) :
      artifact[i].keywords = KeywordsOfRuns(BodyOf(docs[i]), LetterRuns(BodyOf(docs[i])))

\* C11: keywords are the first 50, in order of occurrence, of the runs of 3 or more
\* letters of the lower-cased body that have no digit or underscore next to them,
\* joined by single spaces: at most 50 words, each of 3 or more lower-case letters,
\* and the empty text when the body has no such run.
C11_WholeWordRuns ==
  Built =>
    \A i \in 1..Len(docs) :
      LET body == BodyOf(docs[i])
          words == KeywordList(artifact[i].keywords)
      IN /\ artifact[i].keywords = KeywordsOfRuns(body, WholeWordRuns(body))
         /\ Len(words) <= KeywordLimit
         /\ \A k \in 1..Len(words) :
              /\ Len(words[k]) >= 3
              /\ \A c \in 1..Len(words[k]) : words[k][c] \in DOMAIN UpperOf
         /\ WholeWordRuns(body) = {} <=> artifact[i].keywords = <<>>

C11_Witness ==
  /\ Built
  /\ Len(docs) = 1
  /\ Cardinality(WholeWordRuns(BodyOf(docs[1]))) = KeywordLimit + 1
  /\ Cardinality(LetterRuns(BodyOf(docs[1]))) = KeywordLimit + 2
  /\ Len(KeywordList(artifact[1].keywords)) = KeywordLimit
  /\ \E c \in 1..Len(docs[1].body) : docs[1].body[c] \in DOMAIN LowerOf

\* the first path segment of an identifier: the characters before its first "/"
FirstSegment(slug) ==
  SubSeq(slug, 1, SetMin({k \in 1..(Len(slug) + 1) : k = Len(slug) + 1 \/ slug[k] = "/"}) - 1)
ApplicationOneName ==
  <<"A", "p", "p", "l", "i", "c", "a", "t", "i", "o", "n", " ", "O", "n", "e">>

\* C12: the record's app is the first path segment of the identifier with every "-"
\* replaced by one space and the first character of every word upper-cased, the
\* other characters unchanged; the record's url is "/" followed by the identifier.
C12_AppDisplayName ==
  Built =>
    \A i \in 1..Len(docs) :
      LET seg == FirstSegment(docs[i].slug)
          name == artifact[i].app
      IN /\ Len(name) = Len(seg)
         /\ \A k \in 1..Len(seg) :
              name[k] = IF seg[k] = "-" THEN " "
                        ELSE IF k = 1 \/ seg[k - 1] = "-" THEN ToUpperChar(seg[k])
                        ELSE seg[k]
         /\ artifact[i].url = <<"/">> \o docs[i].slug

C12_Witness ==
  /\ Built
  /\ Len(docs) = 1
  /\ docs[1].slug = ApplicationOne \o <<"/">> \o Support
  /\ artifact[1].app = ApplicationOneName
  /\ artifact[1].url = <<"/">> \o ApplicationOne \o <<"/">> \o Support


(***************************************************************************)
(* Properties of the search box                                            *)
(***************************************************************************)
Ran == executed # NoPattern
TrimmedLen(q) == Len(Trim(q))

\* C1 as stated: a query whose trimmed length is 0 or 1 never invokes the match
\* engine and leaves the results panel hidden.
C1_ShortQueryNeverSearches ==
  (Ran /\ TrimmedLen(executed) <= 1) => (~invoked /\ hidden)

\* C1 amended: a query whose trimmed length is 0 never invokes the match engine
\* and leaves the results panel hidden, also when results were displayed before; a
\* query of trimmed length 1 run on a constructed engine is passed to the engine
\* and the panel is shown.
C1_BlankQueryNeverSearches ==
  /\ (Ran /\ TrimmedLen(executed) = 0) => (~invoked /\ hidden /\ lastPattern # executed)
  /\ (Ran /\ TrimmedLen(executed) = 1 /\ fuse # NoFuse) =>
       (invoked /\ ~hidden /\ lastPattern = executed)

C1_Witness ==
  /\ Ran
  /\ executed = <<>>
  /\ fuse # NoFuse
  /\ hidden
  /\ content.kind = "list"

\* C2: timer callbacks run a query only once 300 ms have passed since the latest
\* input event, at most once per input event, and with the text of that latest
\* input event; until then exactly one timer is pending, the one of the latest
\* input event, and no timer is pending afterwards.
C2_DebounceCoalesces ==
  /\ firedSinceInput <= 1
  /\ executedBy = "timer" =>
       /\ sinceInput >= DebounceMs
       /\ executed = inputValue
       /\ timers = {}
       /\ invoked => lastPattern = inputValue
  /\ sinceInput < DebounceMs => timers # {}
  /\ timers # {} =>
       /\ timers = {[id |-> searchTimeout, query |-> inputValue, elapsed |-> sinceInput]}
       /\ firedSinceInput = 0

C2_Witness ==
  /\ executedBy = "timer"
  /\ cancelled
  /\ invoked
  /\ firedSinceInput = 1
  /\ Len(inputValue) = MaxQueryLen

\* C3: once loading the index has failed, the engine is never constructed, the
\* panel stays hidden whatever is queried, the failure is logged and no exception
\* leaves initializeSearch.
LoadFailed == pc = "failed" \/ errorLog # <<>> \/ unhandled

C3_FailedLoadKeepsPanelHidden ==
  LoadFailed =>
    /\ pc = "failed"
    /\ fuse = NoFuse
    /\ searchIndex = <<>>
    /\ hidden
    /\ ~invoked
    /\ Len(errorLog) = 1
    /\ ~unhandled

C3_Witness ==
  /\ errorLog = <<"500">>
  /\ Ran
  /\ TrimmedLen(executed) >= 2
  /\ hidden
  /\ fuse = NoFuse

\* C5: the rendered list is the first min(10, n) results of the engine, in the
\* engine's order (score ascending).
C5_RendersTopTen ==
  content.kind = "list" =>
    /\ Len(content.items) = Min(RenderLimit, Len(results))
    /\ Len(content.items) <= RenderLimit
    /\ \A i \in 1..Len(content.items) :
         /\ content.items[i].href = results[i].item.url
         /\ content.items[i].title = results[i].item.title
    /\ \A i \in 1..(Len(results) - 1) : results[i].score <= results[i + 1].score

C5_Witness ==
  /\ ~hidden
  /\ content.kind = "list"
  /\ Len(results) > RenderLimit
  /\ Len(content.items) = RenderLimit
  /\ results[1].score < results[Len(results)].score

\* C7: the load state only moves Uninitialized -> Loading -> Ready | Failed; it
\* leaves Uninitialized in the step of the page-ready event; at most one fetch is
\* issued; Ready and Failed are never left; and Loading is left only by the
\* completion of the import, the fetch or the parse, never by time or by the user.
LoadMoves ==
  {<<"Uninitialized", "Loading">>, <<"Loading", "Ready">>, <<"Loading", "Failed">>}

C7_LoadStateMachine ==
  [][/\ LoadState' # LoadState => <<LoadState, LoadState'>> \in LoadMoves
     /\ (LoadState = "Uninitialized" /\ LoadState' # LoadState) => (~domReady /\ domReady')
     /\ domReady => domReady'
     /\ fetchCount' <= 1
     /\ fetchCount' >= fetchCount
     /\ fetchCount' # fetchCount => (LoadState = "Loading" /\ LoadState' = "Loading")
     /\ LoadState \in {"Ready", "Failed"} => (LoadState' = LoadState /\ fuse' = fuse)
     /\ (boxVars' # boxVars \/ Ran') => pc' = pc]_vars

C7_Witness ==
  /\ LoadState = "Loading"
  /\ fetchCount = 1
  /\ sinceInput = DebounceMs
  /\ firedSinceInput = 1
  /\ Ran

\* C8: a query run while the engine is not Ready makes no match attempt and
\* leaves the results panel hidden.
C8_NotReadyNeverSearches ==
  (Ran /\ LoadState # "Ready") => (~invoked /\ hidden /\ lastPattern = NoPattern)

C8_Witness ==
  /\ Ran
  /\ TrimmedLen(executed) >= 2
  /\ LoadState = "Loading"
  /\ ~invoked
  /\ hidden

\* C14: a query of non-blank text run in Ready that gets no match shows the panel
\* with the message "No results found" and no entries, unlike the hidden panel of a
\* blank query; with one match or more the panel lists entries and no message.
RanInReady == Ran /\ LoadState = "Ready" /\ TrimmedLen(executed) > 0
C14_NoResultsMessage ==
  /\ (RanInReady /\ Len(FuseSearch(fuse, executed)) = 0) =>
       (~hidden /\ content = [kind |-> "No results found", items |-> <<>>])
  /\ (RanInReady /\ Len(FuseSearch(fuse, executed)) > 0) =>
       (~hidden /\ content.kind = "list" /\ Len(content.items) > 0)
  /\ (Ran /\ TrimmedLen(executed) = 0) => hidden

C14_Witness ==
  /\ RanInReady
  /\ results = <<>>
  /\ ~hidden
  /\ content.kind = "No results found"

\* C15: while the panel is visible, a click outside the input and the panel hides
\* it, a click inside the input or inside the panel leaves it visible, and Escape
\* pressed in the input hides it and takes the focus from the input.
C15_Dismissal ==
  [][/\ (~hidden /\ lastEvent' = <<"click", "outside">>) => hidden'
     /\ (~hidden /\ lastEvent' \in {<<"click", "input">>, <<"click", "results">>}) =>
          ~hidden'
     /\ (~hidden /\ lastEvent' = <<"keydown", "Escape">>) => (hidden' /\ ~focused')]_vars

C15_Witness ==
  /\ lastEvent = <<"keydown", "Escape">>
  /\ invoked = FALSE
  /\ lastPattern # NoPattern
  /\ content.kind = "list"
  /\ hidden
  /\ ~focused

\* the six fields in the order of the claim, and the weight the engine gives a field
KeyOrder == <<"title", "tags", "description", "keywords", "app", "category">>
KeyNames == {FuseKeys[k].name : k \in 1..Len(FuseKeys)}
WeightOf(name) == FuseKeys[CHOOSE k \in 1..Len(FuseKeys) : FuseKeys[k].name = name].weight
Contains(text, pattern) == Positions(ToLowerCase(text), ToLowerCase(pattern)) # {}

\* C16 as stated: the engine is configured with the six fields in strictly
\* decreasing weight order, no two fields sharing a weight.
C16_StrictlyDecreasingWeights ==
  fuse # NoFuse =>
    /\ KeyNames = {KeyOrder[k] : k \in 1..Len(KeyOrder)}
    /\ \A i, j \in 1..Len(KeyOrder) : i < j => WeightOf(KeyOrder[i]) > WeightOf(KeyOrder[j])

\* C16: the engine is configured with exactly the six fields, title 0.3 > tags 0.25 >
\* description 0.2 > keywords 0.1 = app 0.1 > category 0.05 (keywords and app share a
\* weight, every other pair differs), and no other field is searched: every record
\* a search returns matches in one of the six fields.
C16_SixWeightedKeys ==
  fuse # NoFuse =>
    /\ Len(FuseKeys) = Len(KeyOrder)
    /\ KeyNames = {KeyOrder[k] : k \in 1..Len(KeyOrder)}
    /\ \A i, j \in 1..Len(KeyOrder) :
         i < j => IF KeyOrder[i] = "keywords" /\ KeyOrder[j] = "app"
                  THEN WeightOf(KeyOrder[i]) = WeightOf(KeyOrder[j])
                  ELSE WeightOf(KeyOrder[i]) > WeightOf(KeyOrder[j])
    /\ invoked =>
         \A r \in 1..Len(results) :
           \E k \in 1..Len(KeyOrder) : KeyMatches(results[r].item, KeyOrder[k], lastPattern)

\* a search whose pattern occurs in the body of a record that is not returned
C16_Witness ==
  /\ invoked
  /\ Len(results) > 0
  /\ \E i \in 1..Len(fuse) :
       /\ Contains(fuse[i].content, lastPattern)
       /\ \A r \in 1..Len(results) : results[r].refIndex # i - 1 /\ results[r].item # fuse[i]

\* the text of a field of a record contains the word
FieldContains(record, name, word) ==
  IF name = "tags"
  THEN \E t \in 1..Len(record.tags) : Contains(record.tags[t], word)
  ELSE record[name] # Undefined /\ Contains(record[name], word)

\* C17 as stated: search is full-text; for every document, every word of its body,
\* wherever it occurs, is part of the text the engine searches for that document.
C17_EveryBodyWordSearched ==
  Built =>
    \A i \in 1..Len(artifact) :
      \A p \in LetterRuns(artifact[i].content) :
        \E k \in 1..Len(FuseKeys) :
          FieldContains(artifact[i], FuseKeys[k].name,
                        SubSeq(artifact[i].content, p[1], p[2]))

\* C18 as stated: with results visible, the arrow keys move a selection among the
\* listed results and Enter opens the selected one. After ArrowDown some listed
\* result is selected, wherever the selection was before, so Enter pressed next
\* opens one of the listed results.
ListedHrefs == {content.items[i].href : i \in 1..Len(content.items)}
C18_KeyboardNavigation ==
  [][(/\ ~hidden
      /\ content.kind = "list"
      /\ lastEvent = <<"keydown", "ArrowDown">>
      /\ lastEvent' = <<"keydown", "Enter">>) => opened' \in ListedHrefs]_vars

\* a step runs the text of a keystroke that occurred while the client was Loading
RanLoadingKeystroke == Ran /\ typedIn = "Loading" /\ executed = inputValue

\* C20 as stated: a keystroke that occurred while the client was Loading never
\* leads to results being displayed.
C20_LoadingKeystrokeNeverDisplays ==
  RanLoadingKeystroke => (~invoked /\ hidden)

\* C20: the text of a keystroke that occurred while Loading displays nothing when
\* it is run before the engine is Ready; when its debounce timer fires, or the input
\* regains the focus, after the engine became Ready, non-blank text is searched
\* and its results are displayed.
C20_LoadingKeystrokeRunsWhenReady ==
  RanLoadingKeystroke =>
    /\ LoadState # "Ready" => (~invoked /\ hidden)
    /\ (LoadState = "Ready" /\ TrimmedLen(executed) > 0) =>
         (invoked /\ lastPattern = executed /\ ~hidden)

C20_Witness ==
  /\ RanLoadingKeystroke
  /\ executedBy = "timer"
  /\ LoadState = "Ready"
  /\ invoked
  /\ ~hidden
  /\ content.kind = "list"
  /\ Len(content.items) > 0

\* C21: at most one debounced query is scheduled; an input event cancels the
\* pending one before scheduling its own, so its timer is the only one pending; and
\* the query a timer callback runs is the one searchTimeout refers to, never a
\* cancelled one.
C21_SingleSlotTimer ==
  [][/\ Cardinality(timers') <= 1
     /\ (domReady /\ lastEvent' = <<"input", "">>) =>
          /\ timers' \cap timers = {}
          /\ timers' = {[id |-> searchTimeout', query |-> inputValue', elapsed |-> 0]}
     /\ executedBy' = "timer" =>
          \E t \in timers : t.id = searchTimeout /\ t.query = executed' /\ t \notin timers'
    ]_vars

C21_Witness ==
  /\ cancelled
  /\ lastEvent = <<"input", "">>
  /\ timers = {[id |-> searchTimeout, query |-> inputValue, elapsed |-> 0]}
  /\ lastPattern # NoPattern

\* C22 as stated: once Escape or a click outside has dismissed the panel, it stays
\* hidden until the next input or focus event; a query still pending at the
\* dismissal does not show it again.
C22_DismissedStaysHidden ==
  dismissed => hidden

\* the text the panel renders for a result list
RenderingOf(rs) ==
  IF Len(rs) = 0 THEN [kind |-> "No results found", items |-> <<>>]
  ELSE [kind |-> "list",
        items |-> [i \in 1..Min(RenderLimit, Len(rs)) |->
                     [href |-> rs[i].item.url, title |-> rs[i].item.title,
                      app |-> rs[i].item.app, excerpt |-> rs[i].item.excerpt]]]

\* C23: when the panel is visible and no debounced query is pending, it shows
\* what the engine returns for the current text of the input: its top 10 results,
\* or "No results found".
C23_SettledPanelIsCurrent ==
  (~hidden /\ timers = {}) =>
    /\ fuse # NoFuse
    /\ TrimmedLen(inputValue) > 0
    /\ content = RenderingOf(FuseSearch(fuse, inputValue))

C23_Witness ==
  /\ ~hidden
  /\ timers = {}
  /\ cancelled
  /\ dismissed = FALSE
  /\ content.kind = "list"
  /\ Len(FuseSearch(fuse, inputValue)) > RenderLimit
  /\ lastEvent = <<"click", "input">>

\* C24 as stated: with the clipboard fallback, once every reset timer has fired
\* (and no click is still being handled) the Share button shows its original label.
C24_ShareLabelRestored ==
  (~nativeShare /\ shareAwaiting = 0 /\ shareTimers = <<>>) => shareLabel = ShareLabel

\* the three indicators of one sidebar section
ListVisible(section) == ~section.listHidden
AriaExpanded(section) == section.expanded = "true"
IndicatorsAgree(section) ==
  /\ ListVisible(section) <=> AriaExpanded(section)
  /\ AriaExpanded(section) <=> section.rotated
FlippedFrom(before, after) ==
  /\ ListVisible(after) = ~ListVisible(before)
  /\ AriaExpanded(after) = ~AriaExpanded(before)
  /\ after.rotated = ~before.rotated
  /\ after.app = before.app
  /\ after.active = before.active
  /\ after.links = before.links

\* C25: in every sidebar section the document list is visible exactly when
\* aria-expanded is "true" and exactly when the chevron carries rotate-90; a click
\* on a toggle flips the three indicators of the clicked section and changes no
\* other section (so a second click on the same toggle flips them back).
C25_SidebarToggle ==
  [][sidebar'.status = "rendered" =>
       /\ \A i \in 1..Len(sidebar'.items) : IndicatorsAgree(sidebar'.items[i])
       /\ (sidebar.status = "rendered" /\ sidebar' # sidebar) =>
            /\ Len(sidebar'.items) = Len(sidebar.items)
            /\ \E b \in 1..Len(sidebar.items) :
                 /\ FlippedFrom(sidebar.items[b], sidebar'.items[b])
                 /\ \A j \in 1..Len(sidebar.items) :
                      j # b => sidebar'.items[j] = sidebar.items[j]
    ]_vars

C25_Witness ==
  /\ sidebar.status = "rendered"
  /\ \E i, j \in 1..Len(sidebar.items) :
       /\ sidebar.items[i].active
       /\ sidebar.items[i].listHidden
       /\ sidebar.items[i].expanded = "false"
       /\ ~sidebar.items[i].rotated
       /\ ~sidebar.items[j].active
       /\ ~sidebar.items[j].listHidden
       /\ sidebar.items[j].expanded = "true"
       /\ sidebar.items[j].rotated

\* the document whose page currentPath names
OnDocPage(k) ==
  currentPath \in {<<"/">> \o docs[k].slug, <<"/">> \o docs[k].slug \o <<"/">>}

ActiveSections ==
  {i \in 1..Len(sidebar.items) : sidebar.items[i].active}
ActiveLinks ==
  UNION {{<<i, j>> : j \in {n \in 1..Len(sidebar.items[i].links) :
                               sidebar.items[i].links[n].active}} :
           i \in 1..Len(sidebar.items)}

\* C26 as stated: on the page of a document of application A the sidebar has
\* exactly one highlighted (and initially expanded) section, the one of A, and
\* exactly one active document link, the one of that document.
C26_OneActiveSectionOneActiveLink ==
  sidebar.status = "rendered" =>
    \A k \in 1..Len(docs) :
      OnDocPage(k) =>
        /\ Cardinality(ActiveSections) = 1
        /\ \A i \in ActiveSections : sidebar.items[i].app = FirstSegment(docs[k].slug)
        /\ Cardinality(ActiveLinks) = 1
        /\ \A l \in ActiveLinks :
             sidebar.items[l[1]].links[l[2]].href = <<"/">> \o docs[k].slug

\* C26, sections only and without the trailing "/" of the static build
C26_OneActiveSection ==
  (sidebar.status = "rendered" /\ currentPath[Len(currentPath)] # "/") =>
    Cardinality(ActiveSections) = 1

\* the second segment of a slug
SecondSegment(slug) == Split(slug, "/")[2]

\* C27 as stated: on the home page the link of an application card for category
\* c points to a document of that application whose second slug segment is c,
\* and the card shows no link for c when the application has no such document.
C27_CategoryLinks ==
  home.status = "rendered" =>
    \A i \in 1..Len(home.items) :
      \A j \in 1..Len(home.items[i].links) :
        \E k \in 1..Len(docs) :
          /\ FirstSegment(docs[k].slug) = home.items[i].app
          /\ SecondSegment(docs[k].slug) = home.items[i].links[j].category
          /\ home.items[i].links[j].href = <<"/">> \o docs[k].slug

\* the applications of the collection
AppsOf(ds) == {FirstSegment(ds[k].slug) : k \in 1..Len(ds)}
Ascending(items) ==
  \A i, j \in 1..Len(items) : i < j => LocaleCompare(items[i].app, items[j].app) < 0

\* C28 as stated: the sidebar and the home page group the documents by the first
\* segment of their slug: every document is in exactly one application group, no
\* group is empty, the groups are in ascending localeCompare order of application
\* slug, and the documents of a sidebar group are in ascending slug order.
C28_GroupingIsPartition ==
  /\ sidebar.status # "failed"
  /\ home.status # "failed"
  /\ sidebar.status = "rendered" =>
       /\ \A k \in 1..Len(docs) :
            Cardinality({l \in {<<i, j>> : i \in 1..Len(sidebar.items), j \in 1..Len(docs)} :
                           /\ l[2] <= Len(sidebar.items[l[1]].links)
                           /\ sidebar.items[l[1]].links[l[2]].href = <<"/">> \o docs[k].slug
                           /\ sidebar.items[l[1]].app = FirstSegment(docs[k].slug)}) = 1
       /\ \A i \in 1..Len(sidebar.items) :
            /\ Len(sidebar.items[i].links) > 0
            /\ \A j \in 1..Len(sidebar.items[i].links) :
                 /\ \E k \in 1..Len(docs) :
                      sidebar.items[i].links[j].href = <<"/">> \o docs[k].slug
                 /\ \A n \in 1..(j - 1) :
                      LocaleCompare(sidebar.items[i].links[n].href,
                                    sidebar.items[i].links[j].href) < 0
       /\ Ascending(sidebar.items)
  /\ home.status = "rendered" =>
       /\ {home.items[i].app : i \in 1..Len(home.items)} = AppsOf(docs)
       /\ Ascending(home.items)

\* C28 for collections none of whose applications is named like an inherited
\* property of a plain object
C28_GroupingOfOwnKeys ==
  (AppsOf(docs) \cap InheritedKeys = {}) => C28_GroupingIsPartition

\* the links of the table of contents that carry text-primary-600
PrimaryLinks == {k \in 1..Len(toc.items) : toc.items[k].primary}
\* the headings the last callback reported as intersecting
Intersecting ==
  {lastEntries[e].target : e \in {n \in 1..Len(lastEntries) : lastEntries[n].isIntersecting}}
OneLinkPerHeading ==
  /\ Len(toc.items) = Len(headings)
  /\ \A k \in 1..Len(headings) :
       /\ headings[k].id # NoId
       /\ toc.items[k].href = <<"#">> \o headings[k].id

\* C29 as stated: the table of contents has one link per heading, in document
\* order, each pointing to its heading's id; at most one link is active; after a
\* callback that reports an intersecting heading the active link is that heading's.
C29_ActiveLinkIsTheIntersectingHeadings ==
  toc.status = "rendered" =>
    /\ OneLinkPerHeading
    /\ Cardinality(PrimaryLinks) <= 1
    /\ \A h \in Intersecting : PrimaryLinks = {h}

\* C29: the table of contents has one link per heading, in document order, each
\* pointing to its heading's id; at most one link is active; after a callback
\* that reports intersecting headings the active link is the first link whose
\* href names the id of the last intersecting heading reported, which is that
\* heading's own link when no other heading before it has the same id.
C29_ActiveLinkOfLastIntersecting ==
  toc.status = "rendered" =>
    /\ OneLinkPerHeading
    /\ Cardinality(PrimaryLinks) <= 1
    /\ Intersecting # {} =>
         LET last == CHOOSE h \in Intersecting : \A g \in Intersecting : g <= h
         IN /\ PrimaryLinks = {QueryLink(toc.items, headings[last].id)}
            /\ (\A g \in 1..(last - 1) : headings[g].id # headings[last].id) =>
                 PrimaryLinks = {last}

C29_Witness ==
  /\ toc.status = "rendered"
  /\ Cardinality(Intersecting) >= 2
  /\ Len(lastEntries) = MaxHeadings
  /\ ~lastEntries[MaxHeadings].isIntersecting
  /\ PrimaryLinks = {2}
  /\ headings[2].id = HeadingId(1)

\* the fields the three builders have in common, and those of the two endpoints
CommonFields == {"title", "description", "url", "app", "category", "excerpt"}
EndpointFields == CommonFields \cup {"tags", "lastUpdated"}
AgreeOn(fields, a, b) ==
  /\ Len(a) = Len(b)
  /\ \A i \in 1..Len(a) : \A f \in fields : JsonField(a[i], f) = JsonField(b[i], f)

\* C30: for the same documents the index of scripts/test-search.js and the two
\* endpoint variants carry the same title, description, url, app, category and
\* excerpt after JSON serialization, and the two endpoint variants also the same
\* tags and lastUpdated.
C30_IndexVariantsAgree ==
  /\ (Built /\ plainArtifact.status = "ran") =>
       AgreeOn(EndpointFields, artifact, plainArtifact.items)
  /\ (Built /\ scriptIndex.status = "ran") =>
       AgreeOn(CommonFields, artifact, scriptIndex.items)
  /\ (plainArtifact.status = "ran" /\ scriptIndex.status = "ran") =>
       AgreeOn(CommonFields, plainArtifact.items, scriptIndex.items)

C30_Witness ==
  /\ Built
  /\ plainArtifact.status = "ran"
  /\ scriptIndex.status = "ran"
  /\ docs[1].data.lastUpdated \in Dates
  /\ docs[1].data.description = <<>>
  /\ docs[1].data.tags = Undefined
  /\ artifact[1].lastUpdated # plainArtifact.items[1].lastUpdated
  /\ artifact[1].description = artifact[1].excerpt

====
